---- MODULE Spec2Model ----
(***************************************************************************)
(* Model of scripts/process_grib2.py: the MRMS GRIB2 -> PNG renderer.      *)
(*                                                                         *)
(* Units.  Reflectivity values are whole dBZ.  Latitudes and longitudes    *)
(* are integers in millidegrees (20000 = 20.0 degrees).  gridInfo          *)
(* resolution is held in hundredths of a kilometre, which is the precision *)
(* round(resolution_km, 2) leaves.  Grids are sequences of rows; row 1 and *)
(* column 1 of the model are row 0 and column 0 of the numpy array.        *)
(***************************************************************************)
EXTENDS Integers, Sequences, FiniteSets, TLC

VARIABLES
    pc,                \* position of the run (main or process_grib2)
    caller,            \* "main" (command line) or "call" (process_grib2 called directly)
    argv,              \* the positional arguments, sys.argv[1:]
    fs_exists,         \* whether the input path exists on disk
    input_file,        \* path, a sequence of name parts; the last may be ".gz"
    downsample_factor,
    temp_file,         \* "None" or the NamedTemporaryFile object
    temp_state,        \* the temporary file on disk: "never", "exists", "deleted"
    grbs,              \* "None" or the pygrib handle
    handle_state,      \* the decoder handle: "never", "open", "closed"
    grb,               \* the first message of the file
    flags,             \* [i_scans_neg, j_scans_pos, read]
    bounds,            \* [lat_min, lat_max, lon_min, lon_max]
    data,              \* the numeric grid
    shape,             \* [height, width]
    rgba_data,         \* the colorized grid
    output_state,      \* the output PNG on disk: "absent", "partial", "written"
    output,            \* the pixels of the written PNG
    result,            \* the result record of process_grib2
    exc,               \* the exception being handled
    stdout,            \* the JSON records printed to standard output
    exit_status,       \* -1 while running, else the process exit status
    stages,            \* history of the pipeline stages the run has entered
    orient_count       \* number of orientation normalizations applied to rgba_data

vars == <<pc, caller, argv, fs_exists, input_file, downsample_factor, temp_file,
          temp_state, grbs, handle_state, grb, flags, bounds, data, shape,
          rgba_data, output_state, output, result, exc, stdout, exit_status,
          stages, orient_count>>

(***************************************************************************)
(* Bounds of the model.                                                    *)
(***************************************************************************)
MaxDim == 4         \* largest grid height and width the decoder supplies
MaxFactor == 3      \* largest downsample factor of a direct call

(***************************************************************************)
(* Sequence helpers.                                                       *)
(***************************************************************************)
Last(s) == s[Len(s)]

Rev(s) == [k \in 1..Len(s) |-> s[Len(s) + 1 - k]]

Abs(x) == IF x < 0 THEN -x ELSE x

Min2(a, b) == IF a <= b THEN a ELSE b

Max2(a, b) == IF a >= b THEN a ELSE b

CeilDiv(a, b) == (a + b - 1) \div b

(***************************************************************************)
(* Color scale, lines 49-67.                                               *)
(***************************************************************************)
COLOR_THRESHOLDS ==
    <<-999, 5, 10, 15, 20, 25, 30, 35, 40, 45, 50, 55, 60, 65, 70, 75, 999>>

COLOR_VALUES ==
    << <<0, 0, 0, 0>>,
       <<4, 233, 231, 180>>,
       <<1, 159, 244, 180>>,
       <<3, 0, 244, 180>>,
       <<2, 253, 2, 180>>,
       <<1, 197, 1, 180>>,
       <<0, 142, 0, 180>>,
       <<253, 248, 2, 180>>,
       <<229, 188, 0, 180>>,
       <<253, 149, 0, 180>>,
       <<253, 0, 0, 180>>,
       <<212, 0, 0, 180>>,
       <<188, 0, 0, 180>>,
       <<248, 0, 253, 180>>,
       <<152, 84, 198, 180>>,
       <<255, 255, 255, 200>> >>

\* COLOR_THRESHOLDS[1:-1]: the first and the last threshold are dropped
DigitizeBins == SubSeq(COLOR_THRESHOLDS, 2, Len(COLOR_THRESHOLDS) - 1)

\* a plausible slip: np.digitize(..., right=True), bins[i-1] < x <= bins[i]
DigitizeRight(x) == Cardinality({k \in 1..Len(DigitizeBins) : DigitizeBins[k] < x})

\* np.digitize(x, bins) for increasing bins: the i with bins[i-1] <= x < bins[i],
\* which is the number of bins that are <= x
Digitize(x) == Cardinality({k \in 1..Len(DigitizeBins) : DigitizeBins[k] <= x})

\* rgba[:, :, i] = COLOR_VALUES[indices, i] for each of the four channels
apply_colormap_vectorized(d) ==
    [i \in 1..Len(d) |->
        [j \in 1..Len(d[i]) |->
            [ch \in 1..4 |-> COLOR_VALUES[Digitize(d[i][j]) + 1][ch]]]]

(***************************************************************************)
(* Downsampling, lines 201-206: data[::f, ::f].                            *)
(***************************************************************************)
\* a plausible slip: data[::f], the stride applied to the rows only
StridedRowsOnly(d, f) == [i \in 1..CeilDiv(Len(d), f) |-> d[(i - 1) * f + 1]]

Strided(d, f) ==
    [i \in 1..CeilDiv(Len(d), f) |->
        [j \in 1..CeilDiv(Len(d[1]), f) |-> d[(i - 1) * f + 1][(j - 1) * f + 1]]]

Downsample(d, f) == IF f > 1 THEN Strided(d, f) ELSE d

(***************************************************************************)
(* Orientation, lines 216-227.                                             *)
(***************************************************************************)
Flipud(g) == Rev(g)

Fliplr(g) == [i \in 1..Len(g) |-> Rev(g[i])]

\* a plausible slip: the vertical flip taken when jScansPositively is 0
NormalizeOrientationInverted(g, i_neg, j_pos) ==
    LET v == IF j_pos = 0 THEN Flipud(g) ELSE g
    IN  IF i_neg = 1 THEN Fliplr(v) ELSE v

\* a plausible slip: the horizontal step rolls the columns instead of
\* reversing them
NormalizeOrientationRoll(g, i_neg, j_pos) ==
    LET v == IF j_pos = 1 THEN Flipud(g) ELSE g
    IN  IF i_neg = 1
        THEN [i \in 1..Len(v) |->
                [j \in 1..Len(v[i]) |-> v[i][(j % Len(v[i])) + 1]]]
        ELSE v

NormalizeOrientation(g, i_neg, j_pos) ==
    LET v == IF j_pos = 1 THEN Flipud(g) ELSE g
    IN  IF i_neg = 1 THEN Fliplr(v) ELSE v

(***************************************************************************)
(* Bounds, lines 153-181.                                                  *)
(***************************************************************************)
\* a plausible slip: the 0-360 longitude is left as the decoder gave it
NormalizeLonKept(lon) == lon

NormalizeLon(lon) == IF lon > 180000 THEN lon - 360000 ELSE lon

NormalizeBounds(latA, latB, lonA, lonB) ==
    LET lo1 == NormalizeLon(lonA)
        lo2 == NormalizeLon(lonB)
    IN  [lat_min |-> IF latA > latB THEN latB ELSE latA,
         lat_max |-> IF latA > latB THEN latA ELSE latB,
         lon_min |-> IF lo1 > lo2 THEN lo2 ELSE lo1,
         lon_max |-> IF lo1 > lo2 THEN lo1 ELSE lo2]

(***************************************************************************)
(* Resolution, lines 248-261.                                              *)
(***************************************************************************)
\* round(x, 2) of the non-negative x = num / den hundredths: to nearest, ties to even
RoundHalfEven(num, den) ==
    LET q == num \div den
        r == num % den
    IN  IF 2 * r < den THEN q
        ELSE IF 2 * r > den THEN q + 1
        ELSE IF q % 2 = 0 THEN q ELSE q + 1

\* a plausible slip: the pre-downsample height used in the division
ResolutionUnscaled(b, h, f) ==
    RoundHalfEven(Abs(b.lat_max - b.lat_min) * 111 * f, h * f * 10)

\* round((lat_range * 111) / height * downsample_factor, 2), in hundredths of a
\* km, for latitudes in millidegrees
Resolution(b, h, f) ==
    RoundHalfEven(Abs(b.lat_max - b.lat_min) * 111 * f, h * 10)

(***************************************************************************)
(* The decoder's first message (external collaborator, lines 132-157 and   *)
(* 185).  The file holds a geographic field, field[r][c] with r = 1 the    *)
(* northernmost row and c = 1 the westernmost column, serialized in the    *)
(* scan order its own scanning flags describe.                             *)
(***************************************************************************)
Field(h, w) == [r \in 1..h |-> [c \in 1..w |-> 5 * (((r - 1) * w + (c - 1)) % 16)]]

MaskField(h, w) == [r \in 1..h |-> [c \in 1..w |-> (r = 1 /\ c = 1)]]

\* lines 142-143: iScansNegatively 1 = east to west, jScansPositively 1 = south
\* to north; grb.values is the field in that scan order
ScanOrder(field, i_neg, j_pos) ==
    [k \in 1..Len(field) |->
        [l \in 1..Len(field[1]) |->
            field[IF j_pos = 1 THEN Len(field) + 1 - k ELSE k]
                 [IF i_neg = 1 THEN Len(field[1]) + 1 - l ELSE l]]]

CornerLats == {<<20000, 30000>>, <<54992, 20000>>, <<30000, 54992>>}

CornerLons == {<<200000, 210000>>, <<190000, 170000>>}

Messages ==
    [h : 1..MaxDim, w : 1..MaxDim,
     iScansNegatively : {0, 1}, jScansPositively : {0, 1},
     flagsReadable : BOOLEAN, masked : BOOLEAN,
     lat : CornerLats, lon : CornerLons,
     validDate : {"2024-05-01T12:00:00"}]

NoMessage ==
    [h |-> 0, w |-> 0, iScansNegatively |-> 0, jScansPositively |-> 0,
     flagsReadable |-> FALSE, masked |-> FALSE, lat |-> <<0, 0>>, lon |-> <<0, 0>>,
     validDate |-> ""]

\* grb.values
ValuesOf(m) == ScanOrder(Field(m.h, m.w), m.iScansNegatively, m.jScansPositively)

MaskOf(m) == ScanOrder(MaskField(m.h, m.w), m.iScansNegatively, m.jScansPositively)

\* lines 195-199: np.ma.filled(data, -999) when the array carries a mask
Filled(m) ==
    IF m.masked
    THEN [i \in 1..m.h |->
            [j \in 1..m.w |-> IF MaskOf(m)[i][j] THEN -999 ELSE ValuesOf(m)[i][j]]]
    ELSE ValuesOf(m)

(***************************************************************************)
(* Inputs of a run.                                                        *)
(***************************************************************************)
Paths == {<<"radar", ".grib2">>, <<"radar", ".grib2", ".gz">>}

OutPath == <<"out", ".png">>

\* input_file.endswith('.gz')
EndsWithGz(path) == Last(path) = ".gz"

Argvs == {<<p>> : p \in Paths} \cup {<<p, OutPath>> : p \in Paths}
            \cup {<<p, OutPath, OutPath>> : p \in Paths}

NoResult == [success |-> FALSE, error |-> <<"unset">>]

NoExc == [cls |-> "", msg |-> ""]

NoFlags == [i_scans_neg |-> 0, j_scans_pos |-> 0, read |-> FALSE]

NoBounds == [lat_min |-> 0, lat_max |-> 0, lon_min |-> 0, lon_max |-> 0]

NoShape == [height |-> 0, width |-> 0]

\* the state every run starts from, apart from pc, caller, argv and the inputs
Fresh ==
    /\ temp_file = "None"
    /\ temp_state = "never"
    /\ grbs = "None"
    /\ handle_state = "never"
    /\ grb = NoMessage
    /\ flags = NoFlags
    /\ bounds = NoBounds
    /\ data = <<>>
    /\ shape = NoShape
    /\ rgba_data = <<>>
    /\ output_state = "absent"
    /\ output = <<>>
    /\ result = NoResult
    /\ exc = NoExc
    /\ stdout = <<>>
    /\ exit_status = -1
    /\ orient_count = 0

\* a run from the command line, or a direct call of process_grib2
Init ==
    /\ Fresh
    /\ fs_exists \in BOOLEAN
    /\ \/ /\ caller = "main"
          /\ pc = "m_import"
          /\ argv \in Argvs
          /\ input_file = <<>>
          /\ downsample_factor = 0
          /\ stages = <<>>
       \/ /\ caller = "call"
          /\ pc = "p_check"
          /\ argv = <<>>
          /\ input_file \in Paths
          /\ downsample_factor \in 1..MaxFactor
          /\ stages = <<"Start">>

(***************************************************************************)
(* main and the import guards.                                             *)
(***************************************************************************)
Failure(text) == [success |-> FALSE, error |-> text]

\* lines 26-45: each guarded import prints a failure record and exits 1
M_Import ==
    /\ pc = "m_import"
    /\ \/ /\ pc' = "m_args"
          /\ UNCHANGED <<stdout, exit_status>>
       \/ \E lib \in {"numpy", "PIL", "pygrib"} :
            /\ stdout' = Append(stdout, Failure(<<lib, " import failed: ", "No module">>))
            /\ exit_status' = 1
            /\ pc' = "exit"
    /\ UNCHANGED <<caller, argv, fs_exists, input_file, downsample_factor, temp_file,
                   temp_state, grbs, handle_state, grb, flags, bounds, data, shape,
                   rgba_data, output_state, output, result, exc, stages, orient_count>>

\* a plausible slip: the usage message goes to the error stream only
M_ArgsSilent ==
    /\ pc = "m_args"
    /\ IF Len(argv) + 1 # 3
       THEN /\ exit_status' = 1
            /\ pc' = "exit"
       ELSE /\ pc' = "m_call"
            /\ UNCHANGED exit_status
    /\ UNCHANGED <<caller, argv, fs_exists, input_file, downsample_factor, temp_file,
                   temp_state, grbs, handle_state, grb, flags, bounds, data, shape,
                   rgba_data, output_state, output, result, exc, stdout, stages,
                   orient_count>>

\* lines 287-292: len(sys.argv) != 3 prints the usage record and exits 1
M_Args ==
    /\ pc = "m_args"
    /\ IF Len(argv) + 1 # 3
       THEN /\ stdout' = Append(stdout,
                Failure(<<"Usage: python process_grib2.py <input_file> <output_file>">>))
            /\ exit_status' = 1
            /\ pc' = "exit"
       ELSE /\ pc' = "m_call"
            /\ UNCHANGED <<stdout, exit_status>>
    /\ UNCHANGED <<caller, argv, fs_exists, input_file, downsample_factor, temp_file,
                   temp_state, grbs, handle_state, grb, flags, bounds, data, shape,
                   rgba_data, output_state, output, result, exc, stages, orient_count>>

\* lines 294-302: the arguments are read and logged, then process_grib2 is
\* called with downsample_factor=3; an exception here reaches main's handler
M_Call ==
    /\ pc = "m_call"
    /\ \/ /\ input_file' = argv[1]
          /\ downsample_factor' = 3
          /\ stages' = <<"Start">>
          /\ pc' = "p_check"
          /\ UNCHANGED exc
       \/ /\ exc' = [cls |-> "OSError", msg |-> "stderr"]
          /\ pc' = "m_except"
          /\ UNCHANGED <<input_file, downsample_factor, stages>>
    /\ UNCHANGED <<caller, argv, fs_exists, temp_file, temp_state, grbs, handle_state,
                   grb, flags, bounds, data, shape, rgba_data, output_state, output,
                   result, stdout, exit_status, orient_count>>

\* lines 303-306: the record is printed; exit 1 unless it says success
M_Print ==
    /\ pc = "m_print"
    /\ stdout' = Append(stdout, result)
    /\ exit_status' = IF result.success THEN 0 ELSE 1
    /\ pc' = "exit"
    /\ UNCHANGED <<caller, argv, fs_exists, input_file, downsample_factor, temp_file,
                   temp_state, grbs, handle_state, grb, flags, bounds, data, shape,
                   rgba_data, output_state, output, result, exc, stages, orient_count>>

\* lines 308-312: main's handler prints an "Unhandled" record and exits 1
M_Unhandled ==
    /\ pc = "m_except"
    /\ stdout' = Append(stdout, Failure(<<"Unhandled: ", exc.cls, ": ", exc.msg>>))
    /\ exit_status' = 1
    /\ pc' = "exit"
    /\ UNCHANGED <<caller, argv, fs_exists, input_file, downsample_factor, temp_file,
                   temp_state, grbs, handle_state, grb, flags, bounds, data, shape,
                   rgba_data, output_state, output, result, exc, stages, orient_count>>

(***************************************************************************)
(* process_grib2, lines 89-282.                                            *)
(***************************************************************************)
Raise(cls, msg) ==
    /\ exc' = [cls |-> cls, msg |-> msg]
    /\ pc' = "p_except"

\* a plausible slip: the existence test is left out and the decoder is the
\* first to notice
P_CheckInputSkipped ==
    /\ pc = "p_check"
    /\ pc' = "p_decompress"
    /\ UNCHANGED <<caller, argv, fs_exists, input_file, downsample_factor, temp_file,
                   temp_state, grbs, handle_state, grb, flags, bounds, data, shape,
                   rgba_data, output_state, output, result, exc, stdout, exit_status,
                   stages, orient_count>>

\* lines 104-111: a missing input returns the failure record at once (the
\* finally block still runs); nothing has been acquired yet
P_CheckInput ==
    /\ pc = "p_check"
    /\ IF ~fs_exists
       THEN /\ result' = Failure(<<"Input file not found: ">> \o input_file)
            /\ stages' = Append(stages, "Failed")
            /\ pc' = "p_finally"
       ELSE /\ pc' = "p_decompress"
            /\ UNCHANGED <<result, stages>>
    /\ UNCHANGED <<caller, argv, fs_exists, input_file, downsample_factor, temp_file,
                   temp_state, grbs, handle_state, grb, flags, bounds, data, shape,
                   rgba_data, output_state, output, exc, stdout, exit_status,
                   orient_count>>

\* lines 113-128: a .gz input is decompressed into a NamedTemporaryFile
\* (delete=False); creating it or reading the gzip stream may raise
P_Decompress ==
    /\ pc = "p_decompress"
    /\ IF EndsWithGz(input_file)
       THEN \/ /\ temp_file' = "tmp.grib2"
               /\ temp_state' = "exists"
               /\ pc' = "p_open"
               /\ UNCHANGED exc
            \/ /\ temp_file' = "tmp.grib2"
               /\ temp_state' = "exists"
               /\ Raise("BadGzipFile", "Not a gzipped file")
            \/ /\ Raise("OSError", "No usable temporary directory")
               /\ UNCHANGED <<temp_file, temp_state>>
       ELSE /\ pc' = "p_open"
            /\ UNCHANGED <<temp_file, temp_state, exc>>
    /\ UNCHANGED <<caller, argv, fs_exists, input_file, downsample_factor, grbs,
                   handle_state, grb, flags, bounds, data, shape, rgba_data,
                   output_state, output, result, stdout, exit_status, stages,
                   orient_count>>

\* lines 130-132: grbs = pygrib.open(grib_path)
P_Open ==
    /\ pc = "p_open"
    /\ \/ /\ grbs' = "handle"
          /\ handle_state' = "open"
          /\ stages' = Append(stages, "Decoding")
          /\ pc' = "p_message"
          /\ UNCHANGED exc
       \/ /\ Raise("OSError", "not a GRIB file")
          /\ UNCHANGED <<grbs, handle_state, stages>>
    /\ UNCHANGED <<caller, argv, fs_exists, input_file, downsample_factor, temp_file,
                   temp_state, grb, flags, bounds, data, shape, rgba_data,
                   output_state, output, result, stdout, exit_status, orient_count>>

\* lines 134-139: grb = grbs[1]; valid_date = grb.validDate
P_Message ==
    /\ pc = "p_message"
    /\ \/ /\ grb' \in Messages
          /\ pc' = "p_flags"
          /\ UNCHANGED exc
       \/ /\ Raise("OSError", "no message 1")
          /\ UNCHANGED grb
    /\ UNCHANGED <<caller, argv, fs_exists, input_file, downsample_factor, temp_file,
                   temp_state, grbs, handle_state, flags, bounds, data, shape,
                   rgba_data, output_state, output, result, stdout, exit_status,
                   stages, orient_count>>

\* lines 141-151: the scanning flags, or the defaults 0 and 1 when the message
\* cannot supply them
P_ScanFlags ==
    /\ pc = "p_flags"
    /\ flags' = IF grb.flagsReadable
                THEN [i_scans_neg |-> grb.iScansNegatively,
                      j_scans_pos |-> grb.jScansPositively, read |-> TRUE]
                ELSE [i_scans_neg |-> 0, j_scans_pos |-> 1, read |-> FALSE]
    /\ pc' = "p_bounds"
    /\ UNCHANGED <<caller, argv, fs_exists, input_file, downsample_factor, temp_file,
                   temp_state, grbs, handle_state, grb, bounds, data, shape,
                   rgba_data, output_state, output, result, exc, stdout, exit_status,
                   stages, orient_count>>

\* lines 153-181: the four corner coordinates are read and normalized
P_Bounds ==
    /\ pc = "p_bounds"
    /\ \/ /\ bounds' = NormalizeBounds(grb.lat[1], grb.lat[2], grb.lon[1], grb.lon[2])
          /\ stages' = Append(stages, "BoundsReady")
          /\ pc' = "p_values"
          /\ UNCHANGED exc
       \/ /\ Raise("RuntimeError", "Key/value not found")
          /\ UNCHANGED <<bounds, stages>>
    /\ UNCHANGED <<caller, argv, fs_exists, input_file, downsample_factor, temp_file,
                   temp_state, grbs, handle_state, grb, flags, data, shape, rgba_data,
                   output_state, output, result, stdout, exit_status, orient_count>>

\* lines 183-199: data = grb.values; the handle is closed early and grbs set
\* to None; a masked array is filled with -999
P_Values ==
    /\ pc = "p_values"
    /\ \/ /\ data' = Filled(grb)
          /\ shape' = [height |-> grb.h, width |-> grb.w]
          /\ grbs' = "None"
          /\ handle_state' = "closed"
          /\ stages' = Append(stages, "GridReady")
          /\ pc' = "p_downsample"
          /\ UNCHANGED exc
       \/ /\ Raise("ValueError", "cannot decode values")
          /\ UNCHANGED <<data, shape, grbs, handle_state, stages>>
    /\ UNCHANGED <<caller, argv, fs_exists, input_file, downsample_factor, temp_file,
                   temp_state, grb, flags, bounds, rgba_data, output_state, output,
                   result, stdout, exit_status, orient_count>>

\* lines 201-206: data[::f, ::f] when the factor exceeds 1; height and width
\* are re-read from the result
P_Downsample ==
    /\ pc = "p_downsample"
    /\ data' = Downsample(data, downsample_factor)
    /\ shape' = [height |-> Len(data'), width |-> Len(data'[1])]
    /\ stages' = Append(stages, "Downsampled")
    /\ pc' = "p_colormap"
    /\ UNCHANGED <<caller, argv, fs_exists, input_file, downsample_factor, temp_file,
                   temp_state, grbs, handle_state, grb, flags, bounds, rgba_data,
                   output_state, output, result, exc, stdout, exit_status,
                   orient_count>>

\* lines 208-214: rgba_data = apply_colormap_vectorized(data).  del data only
\* unbinds the name; the grid is kept here so that properties can refer to it
P_Colormap ==
    /\ pc = "p_colormap"
    /\ rgba_data' = apply_colormap_vectorized(data)
    /\ stages' = Append(stages, "Colorized")
    /\ pc' = "p_orient"
    /\ UNCHANGED <<caller, argv, fs_exists, input_file, downsample_factor, temp_file,
                   temp_state, grbs, handle_state, grb, flags, bounds, data, shape,
                   output_state, output, result, exc, stdout, exit_status,
                   orient_count>>

\* lines 216-227: flipud iff j_scans_pos == 1, then fliplr iff i_scans_neg == 1
P_Orient ==
    /\ pc = "p_orient"
    /\ rgba_data' = NormalizeOrientation(rgba_data, flags.i_scans_neg, flags.j_scans_pos)
    /\ orient_count' = orient_count + 1
    /\ stages' = Append(stages, "Oriented")
    /\ pc' = "p_encode"
    /\ UNCHANGED <<caller, argv, fs_exists, input_file, downsample_factor, temp_file,
                   temp_state, grbs, handle_state, grb, flags, bounds, data, shape,
                   output_state, output, result, exc, stdout, exit_status>>

\* lines 229-246: the image is built from rgba_data, the directory made and
\* the PNG saved; a failing save may leave a partial file
P_Encode ==
    /\ pc = "p_encode"
    /\ \/ /\ output' = rgba_data
          /\ output_state' = "written"
          /\ stages' = Append(stages, "Encoded")
          /\ pc' = "p_result"
          /\ UNCHANGED exc
       \/ /\ output_state' \in {"absent", "partial"}
          /\ Raise("PermissionError", "cannot write output")
          /\ UNCHANGED <<output, stages>>
    /\ UNCHANGED <<caller, argv, fs_exists, input_file, downsample_factor, temp_file,
                   temp_state, grbs, handle_state, grb, flags, bounds, data, shape,
                   rgba_data, result, stdout, exit_status, orient_count>>

\* lines 248-263: the resolution and the success record
P_Result ==
    /\ pc = "p_result"
    /\ result' =
         [success |-> TRUE,
          timestamp |-> grb.validDate,
          bounds |-> << <<Min2(bounds.lat_min, bounds.lat_max), bounds.lon_min>>,
                        <<Max2(bounds.lat_min, bounds.lat_max), bounds.lon_max>> >>,
          gridInfo |-> [width |-> shape.width,
                        height |-> shape.height,
                        resolution |-> Resolution(bounds, shape.height, downsample_factor)]]
    /\ stages' = Append(stages, "Done")
    /\ pc' = "p_finally"
    /\ UNCHANGED <<caller, argv, fs_exists, input_file, downsample_factor, temp_file,
                   temp_state, grbs, handle_state, grb, flags, bounds, data, shape,
                   rgba_data, output_state, output, exc, stdout, exit_status,
                   orient_count>>

\* a plausible slip: the handler retries the decode instead of failing
P_ExceptRetry ==
    /\ pc = "p_except"
    /\ pc' = "p_open"
    /\ UNCHANGED <<caller, argv, fs_exists, input_file, downsample_factor, temp_file,
                   temp_state, grbs, handle_state, grb, flags, bounds, data, shape,
                   rgba_data, output_state, output, result, exc, stdout, exit_status,
                   stages, orient_count>>

\* lines 265-269: every Exception becomes the failure record "<class>: <message>"
P_Except ==
    /\ pc = "p_except"
    /\ result' = Failure(<<exc.cls, ": ", exc.msg>>)
    /\ stages' = Append(stages, "Failed")
    /\ pc' = "p_finally"
    /\ UNCHANGED <<caller, argv, fs_exists, input_file, downsample_factor, temp_file,
                   temp_state, grbs, handle_state, grb, flags, bounds, data, shape,
                   rgba_data, output_state, output, exc, stdout, exit_status,
                   orient_count>>

\* a plausible slip: the cleanup closes the handle but forgets the temporary
\* file
P_FinallyNoUnlink ==
    /\ pc = "p_finally"
    /\ handle_state' = IF grbs # "None" THEN "closed" ELSE handle_state
    /\ pc' = IF caller = "main" THEN "m_print" ELSE "returned"
    /\ UNCHANGED <<caller, argv, fs_exists, input_file, downsample_factor, temp_file,
                   temp_state, grbs, grb, flags, bounds, data, shape, rgba_data,
                   output_state, output, result, exc, stdout, exit_status, stages,
                   orient_count>>

\* lines 271-282: the handle is closed if grbs is not None, the temporary
\* file unlinked if temp_file is not None; then the function returns
P_Finally ==
    /\ pc = "p_finally"
    /\ handle_state' = IF grbs # "None" THEN "closed" ELSE handle_state
    /\ temp_state' = IF temp_file # "None" THEN "deleted" ELSE temp_state
    /\ pc' = IF caller = "main" THEN "m_print" ELSE "returned"
    /\ UNCHANGED <<caller, argv, fs_exists, input_file, downsample_factor, temp_file,
                   grbs, grb, flags, bounds, data, shape, rgba_data, output_state,
                   output, result, exc, stdout, exit_status, stages, orient_count>>

Next ==
    \/ M_Import
    \/ M_Args
    \/ M_Call
    \/ M_Print
    \/ M_Unhandled
    \/ P_CheckInput
    \/ P_Decompress
    \/ P_Open
    \/ P_Message
    \/ P_ScanFlags
    \/ P_Bounds
    \/ P_Values
    \/ P_Downsample
    \/ P_Colormap
    \/ P_Orient
    \/ P_Encode
    \/ P_Result
    \/ P_Except
    \/ P_Finally

Spec == Init /\ [][Next]_vars

(***************************************************************************)
(* Specifications of single stages, started from the state process_grib2   *)
(* is in when it reaches the stage, over wider inputs than the whole run   *)
(* can afford.                                                             *)
(***************************************************************************)
\* a direct call that has opened the decoder and read the first message m
Midrun(m, f) ==
    /\ caller = "call"
    /\ argv = <<>>
    /\ fs_exists = TRUE
    /\ input_file = <<"radar", ".grib2">>
    /\ downsample_factor = f
    /\ temp_file = "None"
    /\ temp_state = "never"
    /\ grb = m
    /\ output_state = "absent"
    /\ output = <<>>
    /\ result = NoResult
    /\ exc = NoExc
    /\ stdout = <<>>
    /\ exit_status = -1
    /\ orient_count = 0

\* raw corner coordinates, inside and outside the 0-360 convention
BoundsLats == {-90000, -10000, 0, 30000, 40000, 90000}

BoundsLons == {-200000, -180001, -180000, -1, 0, 170000, 180000, 180001, 200000,
               210000, 359999, 360000, 540000, 540001, 560000}

BoundsMessages ==
    [h : {1}, w : {1}, iScansNegatively : {0}, jScansPositively : {1},
     flagsReadable : {TRUE}, masked : {FALSE},
     lat : BoundsLats \X BoundsLats, lon : BoundsLons \X BoundsLons,
     validDate : {"2024-05-01T12:00:00"}]

InitBounds ==
    /\ \E m \in BoundsMessages : Midrun(m, 1)
    /\ pc = "p_bounds"
    /\ grbs = "handle"
    /\ handle_state = "open"
    /\ flags = [i_scans_neg |-> 0, j_scans_pos |-> 1, read |-> TRUE]
    /\ bounds = NoBounds
    /\ data = <<>>
    /\ shape = NoShape
    /\ rgba_data = <<>>
    /\ stages = <<"Start", "Decoding">>

SpecBounds == InitBounds /\ [][P_Bounds]_vars

\* reflectivity values on, just below and far from every threshold
ColorSamples ==
    {-1000, -999, -998, 0, 80, 998, 999, 1000}
        \cup {5 * k : k \in 1..15} \cup {5 * k - 1 : k \in 1..15}

\* an h x w grid holding a on the even and b on the odd diagonals
Checker(h, w, a, b) ==
    [i \in 1..h |-> [j \in 1..w |-> IF (i + j) % 2 = 0 THEN a ELSE b]]

InitColor ==
    /\ Midrun(NoMessage, 1)
    /\ pc = "p_colormap"
    /\ grbs = "None"
    /\ handle_state = "closed"
    /\ flags = [i_scans_neg |-> 0, j_scans_pos |-> 1, read |-> TRUE]
    /\ bounds = NoBounds
    /\ \E h \in 1..MaxDim, w \in 1..MaxDim, a \in ColorSamples, b \in ColorSamples :
          /\ data = Checker(h, w, a, b)
          /\ shape = [height |-> h, width |-> w]
    /\ rgba_data = <<>>
    /\ stages = <<"Start", "Decoding", "BoundsReady", "GridReady", "Downsampled">>

SpecColor == InitColor /\ [][P_Colormap]_vars

\* messages that differ in the grid only
GridMessages ==
    {m \in Messages : m.lat = <<20000, 30000>> /\ m.lon = <<200000, 210000>>
                        /\ m.flagsReadable}

InitOrient ==
    /\ \E m \in GridMessages, f \in 1..MaxFactor :
          /\ Midrun(m, f)
          /\ data = Downsample(Filled(m), f)
    /\ pc = "p_orient"
    /\ grbs = "None"
    /\ handle_state = "closed"
    /\ flags = [i_scans_neg |-> grb.iScansNegatively,
                j_scans_pos |-> grb.jScansPositively, read |-> TRUE]
    /\ bounds = NormalizeBounds(grb.lat[1], grb.lat[2], grb.lon[1], grb.lon[2])
    /\ shape = [height |-> Len(data), width |-> Len(data[1])]
    /\ rgba_data = apply_colormap_vectorized(data)
    /\ stages = <<"Start", "Decoding", "BoundsReady", "GridReady", "Downsampled",
                  "Colorized">>

\* the orientation block of lines 216-227 run once more on its own result,
\* with the same flags
OrientAgain ==
    /\ pc = "p_encode"
    /\ orient_count = 1
    /\ rgba_data' = NormalizeOrientation(rgba_data, flags.i_scans_neg, flags.j_scans_pos)
    /\ orient_count' = orient_count + 1
    /\ UNCHANGED <<pc, caller, argv, fs_exists, input_file, downsample_factor,
                   temp_file, temp_state, grbs, handle_state, grb, flags, bounds, data,
                   shape, output_state, output, result, exc, stdout, exit_status,
                   stages>>

NextOrient == P_Orient \/ OrientAgain

SpecOrient == InitOrient /\ [][NextOrient]_vars

(***************************************************************************)
(* Vocabulary of the properties.                                           *)
(***************************************************************************)
\* process_grib2 has returned to its caller
Returned == pc \in {"m_print", "returned"} \/ (pc = "exit" /\ stages # <<>>)

Contains(text, part) ==
    \E k \in 0..(Len(text) - Len(part)) : SubSeq(text, k + 1, k + Len(part)) = part

IsPrefix(s, t) == Len(s) <= Len(t) /\ \A k \in 1..Len(s) : s[k] = t[k]

Front(s) == SubSeq(s, 1, Len(s) - 1)

StageOrder ==
    <<"Start", "Decoding", "BoundsReady", "GridReady", "Downsampled", "Colorized",
      "Oriented", "Encoded", "Done">>

Transparent == <<0, 0, 0, 0>>

White == <<255, 255, 255, 200>>

\* the reference lookup: bands in ascending order, band k = [T[k], T[k+1]) with
\* the first band open below and the last open above; the first match wins
RECURSIVE FirstBand(_, _)
FirstBand(v, k) ==
    IF k = Len(COLOR_VALUES) THEN k
    ELSE IF (k = 1 \/ COLOR_THRESHOLDS[k] <= v) /\ v < COLOR_THRESHOLDS[k + 1] THEN k
    ELSE FirstBand(v, k + 1)

colorFor(v) == COLOR_VALUES[FirstBand(v, 1)]

SameShape(a, b) == Len(a) = Len(b) /\ \A i \in 1..Len(a) : Len(a[i]) = Len(b[i])

NthSmallest(S, n) == CHOOSE x \in S : Cardinality({y \in S : y < x}) = n - 1

\* the rows (n = height) or columns (n = width) a stride of f keeps, in scan order
Kept(n, f) == {k \in 1..n : (k - 1) % f = 0}

\* the geographic rows, counted from the north, and columns, counted from the
\* west, of the cells that survive the downsampling of message m
KeptGeoRows(m, f) ==
    {IF m.jScansPositively = 1 THEN m.h + 1 - k ELSE k : k \in Kept(m.h, f)}

KeptGeoCols(m, f) ==
    {IF m.iScansNegatively = 1 THEN m.w + 1 - l ELSE l : l \in Kept(m.w, f)}

GeoValue(m, r, c) == IF m.masked /\ MaskField(m.h, m.w)[r][c] THEN -999 ELSE Field(m.h, m.w)[r][c]

\* the image with north up and west left: row a is the a-th northernmost kept
\* row, column b the b-th westernmost kept column
NorthWestImage(m, f) ==
    [a \in 1..Cardinality(KeptGeoRows(m, f)) |->
        [b \in 1..Cardinality(KeptGeoCols(m, f)) |->
            colorFor(GeoValue(m, NthSmallest(KeptGeoRows(m, f), a),
                                 NthSmallest(KeptGeoCols(m, f), b)))]]

(***************************************************************************)
(* C1.  A run from the command line prints exactly one well-formed result  *)
(* record before it exits, on every path, never more than one, and exits   *)
(* with status 0 exactly when that record says success.                    *)
(***************************************************************************)
WellFormed(r) ==
    \/ /\ DOMAIN r = {"success", "error"}
       /\ r.success = FALSE
    \/ /\ DOMAIN r = {"success", "timestamp", "bounds", "gridInfo"}
       /\ r.success = TRUE

C1_OneRecordAndExitStatus ==
    /\ Len(stdout) <= 1
    /\ pc # "exit" => (stdout = <<>> /\ exit_status = -1)
    /\ pc = "exit" =>
          /\ Len(stdout) = 1
          /\ WellFormed(stdout[1])
          /\ exit_status \in {0, 1}
          /\ (exit_status = 0) <=> stdout[1].success

C1_Witness ==
    /\ pc = "exit"
    /\ exit_status = 0
    /\ Len(stdout) = 1
    /\ stdout[1].success

(***************************************************************************)
(* C2.  Once process_grib2 has returned, by any path, the decoder handle   *)
(* is not open and the temporary decompressed file does not exist.         *)
(***************************************************************************)
C2_ResourcesReleased ==
    Returned => (handle_state \in {"never", "closed"} /\ temp_state \in {"never", "deleted"})

\* a failing run that had both resources, the handle still open at the failure
C2_Witness ==
    /\ Returned
    /\ ~result.success
    /\ grbs = "handle"
    /\ handle_state = "closed"
    /\ temp_state = "deleted"

(***************************************************************************)
(* C3.  After normalization latMin <= latMax, lonMin <= lonMax and both    *)
(* longitudes are within [-180, 180]; lon (200, 210) becomes (-160, -150)  *)
(* and lat (40, 30) becomes (30, 40).  C3_Original states it for every raw *)
(* input; C3_BoundsNormalized for raw longitudes within [-180, 540].       *)
(***************************************************************************)
LonInRange(b) ==
    /\ -180000 <= b.lon_min /\ b.lon_min <= 180000
    /\ -180000 <= b.lon_max /\ b.lon_max <= 180000

Ordered(b) == b.lat_min <= b.lat_max /\ b.lon_min <= b.lon_max

RawLonConvertible(m) == \A k \in 1..2 : -180000 <= m.lon[k] /\ m.lon[k] <= 540000

C3_Original == pc = "p_values" => (Ordered(bounds) /\ LonInRange(bounds))

C3_BoundsNormalized ==
    pc = "p_values" =>
        /\ Ordered(bounds)
        /\ RawLonConvertible(grb) => LonInRange(bounds)
        /\ grb.lon = <<200000, 210000>> =>
              (bounds.lon_min = -160000 /\ bounds.lon_max = -150000)
        /\ grb.lat = <<40000, 30000>> =>
              (bounds.lat_min = 30000 /\ bounds.lat_max = 40000)

C3_Witness ==
    /\ pc = "p_values"
    /\ grb.lon = <<200000, 210000>>
    /\ grb.lat = <<40000, 30000>>
    /\ bounds = [lat_min |-> 30000, lat_max |-> 40000,
                 lon_min |-> -160000, lon_max |-> -150000]

(***************************************************************************)
(* C4.  The colorized grid has the shape of the numeric grid and every     *)
(* cell is colorFor of the value: below 5 (the sentinel -999 included)     *)
(* transparent, 75 and above white, a value on a boundary 5, 10, ..., 75   *)
(* the colour of the band that starts there.                               *)
(***************************************************************************)
C4_ColormapMatchesColorFor ==
    pc = "p_orient" =>
        /\ SameShape(rgba_data, data)
        /\ \A i \in 1..Len(data) : \A j \in 1..Len(data[i]) :
              LET v == data[i][j]
                  c == rgba_data[i][j]
              IN  /\ c = colorFor(v)
                  /\ v < 5 => c = Transparent
                  /\ v >= 75 => c = White
                  /\ \A k \in 1..15 : v = 5 * k => c = COLOR_VALUES[k + 1]

\* a sentinel cell next to a cell on the 5 dBZ boundary
C4_Witness ==
    /\ pc = "p_orient"
    /\ Len(data) = 2
    /\ Len(data[1]) = 2
    /\ data[1][1] = -999
    /\ data[1][2] = 5
    /\ rgba_data[1][1] = Transparent
    /\ rgba_data[1][2] = <<4, 233, 231, 180>>

(***************************************************************************)
(* C5.  After orientation normalization the image has north up and west    *)
(* left: its row 0 is the northernmost and its column 0 the westernmost    *)
(* of the (downsampled) grid.  C5_Original states it for every source,     *)
(* C5_NorthWestTopLeft for sources whose flags were read from the message  *)
(* or that scan the way the defaults assume.                               *)
(***************************************************************************)
Oriented == pc = "p_encode" \/ output_state = "written"

Image == IF output_state = "written" THEN output ELSE rgba_data

C5_Original == Oriented => Image = NorthWestImage(grb, downsample_factor)

C5_NorthWestTopLeft ==
    (Oriented /\ (flags.read \/ (grb.iScansNegatively = 0 /\ grb.jScansPositively = 1)))
        => Image = NorthWestImage(grb, downsample_factor)

\* a source scanning east to west and south to north, both flips applied
C5_Witness ==
    /\ output_state = "written"
    /\ flags.read
    /\ grb.iScansNegatively = 1
    /\ grb.jScansPositively = 1
    /\ grb.h = 3
    /\ grb.w = 3
    /\ downsample_factor = 1
    /\ output[1][1] = colorFor(GeoValue(grb, 1, 1))
    /\ output[1][1] # output[3][3]

(***************************************************************************)
(* C6.  The downsampled grid of an h x w grid has ceil(h/f) rows and       *)
(* ceil(w/f) columns, its cell (i, j) is cell (i*f, j*f) of the input      *)
(* (indices from 0), and with f = 1 it is the input.                       *)
(***************************************************************************)
C6_DownsampleStrided ==
    pc = "p_colormap" =>
        LET f == downsample_factor
            src == Filled(grb)
        IN  /\ Len(data) = CeilDiv(grb.h, f)
            /\ \A i \in 1..Len(data) : Len(data[i]) = CeilDiv(grb.w, f)
            /\ \A i \in 0..(Len(data) - 1) : \A j \in 0..(Len(data[1]) - 1) :
                  data[i + 1][j + 1] = src[i * f + 1][j * f + 1]
            /\ f = 1 => data = src
            /\ shape = [height |-> Len(data), width |-> Len(data[1])]

C6_Witness ==
    /\ pc = "p_colormap"
    /\ downsample_factor = 3
    /\ grb.h = 4
    /\ grb.w = 2
    /\ Len(data) = 2
    /\ Len(data[1]) = 1
    /\ data[2][1] = Filled(grb)[4][1]

(***************************************************************************)
(* C7.  On success gridInfo.width and gridInfo.height are the column and   *)
(* row counts of the post-downsample grid and gridInfo.resolution is       *)
(* (|latMax - latMin| * 111 / height) * factor over the normalized         *)
(* latitudes.  C7_Original states the resolution as that value exactly;    *)
(* C7_GridInfo as that value rounded to two decimals.                      *)
(***************************************************************************)
Succeeded == result.success /\ pc \in {"p_finally", "m_print", "returned", "exit"}

\* resolution * height = |latMax - latMin| * 111 * factor, with the resolution
\* in hundredths of a km and the latitudes in millidegrees
ResolutionNum == Abs(Max2(grb.lat[1], grb.lat[2]) - Min2(grb.lat[1], grb.lat[2]))
                    * 111 * downsample_factor

ResolutionDen == result.gridInfo.height * 10

GridCounts ==
    /\ result.gridInfo.width = Len(data[1])
    /\ result.gridInfo.height = Len(data)
    /\ result.gridInfo.width = Len(output[1])
    /\ result.gridInfo.height = Len(output)

Example4x4 ==
    (/\ grb.h = 4
     /\ grb.w = 4
     /\ downsample_factor = 1
     /\ grb.lat = <<20000, 30000>>
     /\ grb.lon = <<200000, 210000>>)
        => /\ result.bounds = << <<20000, -160000>>, <<30000, -150000>> >>
           /\ result.gridInfo = [width |-> 4, height |-> 4, resolution |-> 27750]

C7_Original ==
    Succeeded =>
        /\ GridCounts
        /\ result.gridInfo.resolution * ResolutionDen = ResolutionNum
        /\ Example4x4

C7_GridInfo ==
    Succeeded =>
        /\ GridCounts
        /\ 2 * Abs(result.gridInfo.resolution * ResolutionDen - ResolutionNum)
              <= ResolutionDen
        /\ Example4x4

C7_Witness ==
    /\ Succeeded
    /\ grb.h = 4
    /\ grb.w = 4
    /\ downsample_factor = 1
    /\ grb.lat = <<20000, 30000>>
    /\ grb.lon = <<200000, 210000>>
    /\ result.gridInfo.resolution = 27750

(***************************************************************************)
(* C8.  A missing input fails before the decoder is touched: no temporary  *)
(* file, no handle, no output image, a failure record whose message holds  *)
(* the input path, and exit status 1.                                      *)
(***************************************************************************)
C8_MissingInputFailsFirst ==
    (~fs_exists /\ stages # <<>>) =>
        /\ temp_state = "never"
        /\ handle_state = "never"
        /\ output_state = "absent"
        /\ IsPrefix(stages, <<"Start", "Failed">>)
        /\ pc \in {"p_check", "p_finally", "m_print", "returned", "exit"}
        /\ Returned =>
              /\ ~result.success
              /\ Contains(result.error, input_file)
        /\ pc = "exit" => (exit_status = 1 /\ stdout = <<result>>)

C8_Witness ==
    /\ ~fs_exists
    /\ pc = "exit"
    /\ exit_status = 1
    /\ stdout = <<Failure(<<"Input file not found: ", "radar", ".grib2", ".gz">>)>>

(***************************************************************************)
(* C9.  The stages of a run are entered in the order Start, Decoding,      *)
(* BoundsReady, GridReady, Downsampled, Colorized, Oriented, Encoded,      *)
(* Done, each at most once; a failure enters Failed from a non-terminal    *)
(* stage and nothing follows it; the function returns a record: Done with  *)
(* a success record or Failed with a failure record naming the error.      *)
(***************************************************************************)
FailureText ==
    IF exc = NoExc THEN <<"Input file not found: ">> \o input_file
    ELSE <<exc.cls, ": ", exc.msg>>

C10_OrientationInvolution ==
    /\ orient_count = 2 => rgba_data = apply_colormap_vectorized(data)
    /\ (orient_count = 1 /\ flags.i_scans_neg = 0 /\ flags.j_scans_pos = 0)
          => rgba_data = apply_colormap_vectorized(data)

\* both flips applied twice to a grid that a single application changes
C10_Witness ==
    /\ orient_count = 2
    /\ flags.i_scans_neg = 1
    /\ flags.j_scans_pos = 1
    /\ Len(rgba_data) = 3
    /\ Len(rgba_data[1]) = 3
    /\ rgba_data # NormalizeOrientation(rgba_data, 1, 1)

====
